---- MODULE Spec2Model ----
(***************************************************************************)
(* State-machine model of the insight-derivation engine of D2C.py:         *)
(* InsightGenerator (analyze, _normalize_value, save_insights_to_json,     *)
(* generate_and_save_markdown_report), CreativeGenerator, and the part of  *)
(* run_full_d2c_pipeline that drives them.                                 *)
(*                                                                         *)
(* Numbers.  The table holds integers.  A value the code computes by a     *)
(* division (a group mean, a normalized score) is kept as an exact         *)
(* fraction [num, den].  round(x, 2) is modelled by Round2 and the ":.2f"  *)
(* format by Format2f; both yield the value in hundredths (33 stands for   *)
(* 0.33) and both round the float64 of the fraction, not the fraction.     *)
(***************************************************************************)
EXTENDS Integers, Sequences, FiniteSets, TLC

\* ---------------------------------------------------------------- bounds
MaxRows == 3
MaxAnalyze == 2
MaxNorm == 4

\* ------------------------------------------------------ program constants
\* the "average_position > 5" cut of the SEO rule
PositionThreshold == 5
\* round(confidence, 2): two decimals, i.e. hundredths
ScoreScale == 100

\* ------------------------------------------------------------ input sets
\* The columns analyze reads (the other columns of the table are never read).
Columns == {"channel", "category", "spend", "roas", "search_volume", "average_position"}

Channels == {"A", "B", "C"}
Categories == {"Shoes", "Bags"}
RoasValues == {1, 2}
SpendValues == {1, 24, 41}
VolumeValues == {1, 2, 4}
PositionValues == {5, 6}

\* rows that vary what the channel rule reads
ChannelRows ==
  [channel : Channels, roas : RoasValues, spend : SpendValues,
   category : {"Shoes"}, search_volume : {1}, average_position : {6}]

\* rows that vary what the SEO rule reads
SeoRows ==
  [channel : {"A"}, roas : {1}, spend : {1},
   category : Categories, search_volume : VolumeValues, average_position : PositionValues]

\* the small rows of the interface and pipeline specifications
ApiRows ==
  [channel : {"A", "B"}, roas : {1}, spend : {1},
   category : {"Shoes"}, search_volume : {1}, average_position : PositionValues]

SeqsUpTo(S, n) == UNION {[1..k -> S] : k \in 0..n}

\* a table with every column, or with exactly one column absent
Schemas == {Columns} \cup {Columns \ {c} : c \in Columns}

\* The schemas D2CDataPipeline.run can hand over: it reads spend (line 34) and
\* creates roas (line 35), so these two are never absent.
PipelineSchemas == {cs \in Schemas : {"spend", "roas"} \subseteq cs}

\* A file path as os.path splits it: directory part and file name.  The
\* pipeline's paths lie in "output"; a bare file name has the directory "".
PipelineJsonPath == [dir |-> "output", file |-> "d2c_insights.json"]
SavePaths == {PipelineJsonPath, [dir |-> "", file |-> "d2c_insights.json"]}

\* os.path.dirname
Dirname(path) == path.dir

NormDomain == 0..MaxNorm

VARIABLES
  df,           \* self.df: the rows of the table (a sequence of records)
  columns,      \* the column names self.df has
  insights,     \* self.insights
  outcome,      \* how the last analyze call ended: "none", "ok", "KeyError"
  analyzeCalls, \* number of analyze calls made
  savedJson,    \* content of the insights JSON file on disk, NoFile if there is none
  saveOutcome,  \* how the last save_insights_to_json call ended:
                \* "none", "returned", "FileNotFoundError"
  prompt,       \* the prompt last passed to model.generate_content, NoPrompt if none
  service,      \* how the last model.generate_content call ended:
                \* "none", "answered", "failed"
  report,       \* the markdown report file on disk: "none", "previous" (left by
                \* an earlier run), "written" (by this generator)
  creative,     \* how the last CreativeGenerator call ended: "none", "ok",
                \* "KeyError", "ValueError", "ServiceError"
  pc,           \* position in run_full_d2c_pipeline ("api" outside the pipeline)
  normArgs,     \* arguments of a direct _normalize_value call, <<>> if none
  normResult    \* what that call returned, NoResult before it

vars == <<df, columns, insights, outcome, analyzeCalls, savedJson, saveOutcome,
          prompt, service, report, creative, pc, normArgs, normResult>>

NoFile == [written |-> FALSE]
NoPrompt == [kind |-> "none", body |-> <<>>]
NoResult == [returned |-> FALSE]

\* ------------------------------------------------------- numeric helpers
RECURSIVE SeqSum(_)
SeqSum(s) == IF s = <<>> THEN 0 ELSE Head(s) + SeqSum(Tail(s))

SetMin(S) == CHOOSE x \in S : \A y \in S : x <= y
SetMax(S) == CHOOSE x \in S : \A y \in S : x >= y

RemoveAt(s, i) == [j \in 1..(Len(s) - 1) |-> IF j < i THEN s[j] ELSE s[j + 1]]

RECURSIVE SortAsc(_)
SortAsc(s) ==
  IF s = <<>> THEN <<>>
  ELSE LET m == SetMin({s[i] : i \in DOMAIN s})
           i == CHOOSE k \in DOMAIN s : s[k] = m
       IN  <<m>> \o SortAsc(RemoveAt(s, i))

\* a <= b for fractions with positive denominators
FracLeq(a, b) == a.num * b.den <= b.num * a.den

\* ---- the float64 nearest to a fraction, as far as rounding to hundredths
\* ---- needs it
\* the number of binary digits of the natural k (0 for 0)
RECURSIVE BitLen(_)
BitLen(k) == IF k = 0 THEN 0 ELSE 1 + BitLen(k \div 2)

\* the remainder of r/d after `bits` more binary digits of the quotient
RECURSIVE ShiftRem(_, _, _)
ShiftRem(r, d, bits) == IF bits = 0 THEN r ELSE ShiftRem((2 * r) % d, d, bits - 1)

\* the zero binary digits with which the fraction r/d (0 < r < d) starts
RECURSIVE LeadZeros(_, _)
LeadZeros(r, d) == IF 2 * r >= d THEN 0 ELSE 1 + LeadZeros(2 * r, d)

\* The float64 x that a division yields for the fraction q > 0 (53 significant
\* binary digits, rounded to nearest): exp is the binary exponent of q, sign
\* tells whether x < q (-1), x = q (0) or x > q (1), and err / q.den is
\* |x - q| in units of the last digit of x.
Float64(q) ==
  LET whole == q.num \div q.den
      r0 == q.num % q.den
      lead == IF whole > 0 THEN 0 ELSE LeadZeros(r0, q.den)
      digits == IF whole > 0 THEN 53 - BitLen(whole) ELSE lead + 53
      rem == ShiftRem(r0, q.den, digits)
  IN  [exp |-> IF whole > 0 THEN BitLen(whole) - 1 ELSE 0 - (lead + 1),
       sign |-> IF rem = 0 THEN 0 ELSE IF 2 * rem < q.den THEN -1 ELSE 1,
       err |-> IF 2 * rem < q.den THEN rem ELSE q.den - rem]

RECURSIVE Pow2(_)
Pow2(k) == IF k = 0 THEN 1 ELSE 2 * Pow2(k - 1)

\* f"{x:.2f}" of the float of the fraction q >= 0, in hundredths: the decimal
\* nearest to the float's exact value; a tie only when the float is exactly
\* halfway (then to the even neighbour).
Format2f(q) ==
  LET n == ScoreScale * q.num
      fl == n \div q.den
      r == n % q.den
      even == IF fl % 2 = 0 THEN fl ELSE fl + 1
  IN  IF 2 * r < q.den THEN fl
      ELSE IF 2 * r > q.den THEN fl + 1
      ELSE LET x == Float64(q)
           IN  IF x.sign = 0 THEN even ELSE IF x.sign < 0 THEN fl ELSE fl + 1

\* round(x, 2) of a numpy float64, in hundredths: rint(x * 100) / 100.  When q
\* is halfway between two hundredths, the product x * 100 is itself rounded to
\* a float: it is exactly the half (and rint goes to the even neighbour) when
\* 100 * |x - q| is at most half the spacing of floats at the half, and else it
\* lies on the side of q where x lies.
Round2(q) ==
  LET n == ScoreScale * q.num
      fl == n \div q.den
      r == n % q.den
      even == IF fl % 2 = 0 THEN fl ELSE fl + 1
  IN  IF 2 * r < q.den THEN fl
      ELSE IF 2 * r > q.den THEN fl + 1
      ELSE LET x == Float64(q)
               gap == (BitLen(fl) - 1) - x.exp
               room == IF fl = 0 /\ x.sign < 0 THEN Pow2(gap - 1) ELSE Pow2(gap)
           IN  IF x.sign = 0 \/ 2 * ScoreScale * x.err <= room * q.den THEN even
               ELSE IF x.sign < 0 THEN fl ELSE fl + 1

\* --------------------------------------------------------- normalization
\* The mutant of _normalize_value: scales by max_val alone, not by the range.
normalize_by_max(value, min_val, max_val) ==
  IF max_val = min_val THEN [num |-> 1, den |-> 1]
  ELSE [num |-> value - min_val, den |-> max_val]

\* InsightGenerator._normalize_value: 1.0 on a degenerate range, else linear
\* min-max scaling.  It has no check of max_val < min_val and never raises.
_normalize_value(value, min_val, max_val) ==
  IF max_val = min_val THEN [num |-> 1, den |-> 1]
  ELSE [num |-> value - min_val, den |-> max_val - min_val]

\* ---------------------------------------------------------- channel rule
Col(rows, name) == [i \in DOMAIN rows |-> rows[i][name]]

\* the keys of self.df.groupby('channel')
GroupKeys == {df[i].channel : i \in DOMAIN df}

\* groupby sorts the groups by key: the channel names in string order
ChannelOrder == <<"A", "B", "C">>

KeyRank(c) == CHOOSE i \in DOMAIN ChannelOrder : ChannelOrder[i] = c

GroupRows(c) == SelectSeq(df, LAMBDA r : r.channel = c)

\* one row of channel_perf: .agg(avg_roas=('roas','mean'), total_spend=('spend','sum'))
channel_perf(c) ==
  LET g == GroupRows(c)
  IN  [avg_roas |-> [num |-> SeqSum(Col(g, "roas")), den |-> Len(g)],
       total_spend |-> SeqSum(Col(g, "spend"))]

\* The mutant of TopChannels: sorts ascending, so the lowest mean comes first.
TopChannelsAscending ==
  LET perf == [c \in GroupKeys |-> channel_perf(c)]
  IN  {c \in GroupKeys :
         \A d \in GroupKeys : FracLeq(perf[c].avg_roas, perf[d].avg_roas)}

\* The channels that sort_values(by='avg_roas', ascending=False).iloc[0] can
\* yield: those of maximal avg_roas.  The rows of channel_perf are in key order.
\* When every avg_roas is equal the sort exchanges nothing and the first key
\* stays first; otherwise the default sort kind (quicksort) is not stable, and
\* among tied channels the first row of the result is any of them.
TopChannels ==
  LET perf == [c \in GroupKeys |-> channel_perf(c)]
      best == {c \in GroupKeys :
                 \A d \in GroupKeys : FracLeq(perf[d].avg_roas, perf[c].avg_roas)}
  IN  IF best = GroupKeys
        THEN {c \in GroupKeys : \A d \in GroupKeys : KeyRank(c) <= KeyRank(d)}
        ELSE best

TotalSpends == {channel_perf(c).total_spend : c \in GroupKeys}

\* The mutant of FunScore: the range is taken over the rows' spend, not over
\* the channels' total_spend.
FunScoreRowRange(c) ==
  LET spends == {df[i].spend : i \in DOMAIN df}
  IN  Round2(_normalize_value(channel_perf(c).total_spend, SetMin(spends), SetMax(spends)))

\* round(self._normalize_value(top_channel['total_spend'], min, max), 2)
FunScore(c) ==
  Round2(_normalize_value(channel_perf(c).total_spend,
                          SetMin(TotalSpends), SetMax(TotalSpends)))

\* the dict appended for the top channel c
FunInsight(c) ==
  [insight_id |-> "FUN-001", type |-> "Funnel", title |-> "Top Channel by ROAS",
   recommendation |-> <<c, Format2f(channel_perf(c).avg_roas)>>,
   confidence |-> [score |-> FunScore(c),
                   justification |-> channel_perf(c).total_spend]]

\* what the channel rule appends: nothing on an empty table, else one insight
FunOutcomes == IF df = <<>> THEN {<<>>} ELSE {<<FunInsight(c)>> : c \in TopChannels}

\* -------------------------------------------------------------- SEO rule
\* twice self.df['search_volume'].median() (the mean of the two middle values
\* when the count is even), for a non-empty table
Median2 ==
  LET s == SortAsc(Col(df, "search_volume"))
      n == Len(s)
  IN  IF n % 2 = 1 THEN 2 * s[(n + 1) \div 2] ELSE s[n \div 2] + s[n \div 2 + 1]

\* The mutant of high_potential: "average_position >= 5".
high_potential_inclusive ==
  LET median2 == Median2
  IN  {i \in DOMAIN df :
         /\ 2 * df[i].search_volume >= median2
         /\ df[i].average_position >= PositionThreshold}

\* the rows (by index) that pass the filter of line 78
high_potential ==
  LET median2 == Median2
  IN  {i \in DOMAIN df :
         /\ 2 * df[i].search_volume >= median2
         /\ df[i].average_position > PositionThreshold}

\* The rows that sort_values(by='search_volume', ascending=False).iloc[0] can
\* yield: the filtered rows of maximal search_volume.  The filtered rows are in
\* table order; when all their volumes are equal the first stays first,
\* otherwise the sort (not stable) yields any of the tied rows.
TopOpps ==
  LET hp == high_potential
      best == {i \in hp : \A j \in hp : df[j].search_volume <= df[i].search_volume}
  IN  IF best = hp THEN {i \in hp : \A j \in hp : i <= j} ELSE best

Volumes == {df[i].search_volume : i \in DOMAIN df}

\* The mutant of SeoScore: the range is taken over the filtered rows.
SeoScoreFilteredRange(i) ==
  LET vs == {df[j].search_volume : j \in high_potential}
  IN  Round2(_normalize_value(df[i].search_volume, SetMin(vs), SetMax(vs)))

\* round(self._normalize_value(top_opp['search_volume'], min, max), 2) over self.df
SeoScore(i) ==
  Round2(_normalize_value(df[i].search_volume, SetMin(Volumes), SetMax(Volumes)))

\* the dict appended for the top opportunity, row i
SeoInsight(i) ==
  [insight_id |-> "SEO-001", type |-> "SEO",
   title |-> "High-Volume, Poorly Ranked Category",
   recommendation |-> <<df[i].category, df[i].search_volume>>,
   confidence |-> [score |-> SeoScore(i), justification |-> df[i].search_volume]]

\* ------------------------------------------------------------ operations
\* InsightGenerator.analyze.  A column the code indexes and the table lacks
\* raises KeyError at that line; what was appended before stays appended.
AnalyzeBody ==
  /\ analyzeCalls < MaxAnalyze
  /\ analyzeCalls' = analyzeCalls + 1
  /\ IF ~({"channel", "roas", "spend"} \subseteq columns)
       THEN \* line 63 raises before anything is appended
            /\ outcome' = "KeyError"
            /\ insights' = insights
       ELSE \E fun \in FunOutcomes :
              IF ~({"search_volume", "average_position"} \subseteq columns)
                THEN \* line 78 raises, after the append of line 67
                     /\ outcome' = "KeyError"
                     /\ insights' = insights \o fun
                ELSE IF df = <<>> \/ high_potential = {}
                  THEN /\ outcome' = "ok"
                       /\ insights' = insights \o fun
                  ELSE IF "category" \notin columns
                    THEN \* line 84 raises
                         /\ outcome' = "KeyError"
                         /\ insights' = insights \o fun
                    ELSE \E i \in TopOpps :
                           /\ outcome' = "ok"
                           /\ insights' = insights \o fun \o <<SeoInsight(i)>>
  /\ UNCHANGED <<df, columns, savedJson, saveOutcome, prompt, service, report,
                 creative, normArgs, normResult>>

\* json.dumps(insight, indent=2): the keys and values in the dict's order
JsonDumps(insight) ==
  << <<"insight_id", insight.insight_id>>,
     <<"type", insight.type>>,
     <<"title", insight.title>>,
     <<"recommendation", insight.recommendation>>,
     <<"confidence", << <<"score", insight.confidence.score>>,
                        <<"justification", insight.confidence.justification>> >> >> >>

\* The mutant of PromptText: joins the blocks last insight first.
PromptTextReversed(ins) == [i \in DOMAIN ins |-> JsonDumps(ins[Len(ins) + 1 - i])]

\* "\n\n".join([json.dumps(insight, indent=2) for insight in self.insights])
PromptText(ins) == [i \in DOMAIN ins |-> JsonDumps(ins[i])]

\* InsightGenerator.save_insights_to_json (the generation timestamp, which no
\* operation reads back, is left out of the file's content).  os.makedirs of
\* the path's directory raises FileNotFoundError when that directory is "",
\* before the file is opened.
SaveBody(output_filepath) ==
  /\ IF insights = <<>>
       THEN /\ saveOutcome' = "returned"
            /\ savedJson' = savedJson
       ELSE IF Dirname(output_filepath) = ""
         THEN /\ saveOutcome' = "FileNotFoundError"
              /\ savedJson' = savedJson
         ELSE /\ saveOutcome' = "returned"
              /\ savedJson' = [written |-> TRUE, insights |-> insights]
  /\ UNCHANGED <<df, columns, insights, outcome, analyzeCalls, prompt, service,
                 report, creative, normArgs, normResult>>

\* model.generate_content(p): the text service answers or raises
GenerateContent(p) ==
  /\ prompt' = p
  /\ service' \in {"answered", "failed"}

\* InsightGenerator.generate_and_save_markdown_report: the text service either
\* answers (the report is written, if the file can be opened) or fails; the
\* except clause prints either error.
ReportBody(canOpen) ==
  /\ IF insights = <<>>
       THEN UNCHANGED <<prompt, service, report>>
       ELSE /\ GenerateContent([kind |-> "report", body |-> PromptText(insights)])
            /\ report' = IF service' = "answered" /\ canOpen THEN "written" ELSE report
  /\ UNCHANGED <<df, columns, insights, outcome, analyzeCalls, savedJson, saveOutcome,
                 creative, normArgs, normResult>>

\* ------------------------------------------------------ CreativeGenerator
\* self.df['roas'].idxmax(): the first row of the greatest roas
IdxMaxRoas ==
  SetMin({i \in DOMAIN df : \A j \in DOMAIN df : df[j].roas <= df[i].roas})

\* The row generate_seo_meta_description takes: the same filter and sort as
\* line 78 over the same table, so the same row as analyze took when it did.
BestSeoOpps ==
  LET same == {i \in TopOpps : \A k \in DOMAIN insights :
                 insights[k].insight_id = "SEO-001" =>
                   insights[k].recommendation = <<df[i].category, df[i].search_volume>>}
  IN  IF same # {} THEN same ELSE TopOpps

\* CreativeGenerator.generate_ad_headline: no try, every error propagates
HeadlineBody ==
  /\ IF "roas" \notin columns
       THEN creative' = "KeyError" /\ UNCHANGED <<prompt, service>>
       ELSE IF df = <<>>
         THEN \* idxmax of an empty column
              creative' = "ValueError" /\ UNCHANGED <<prompt, service>>
         ELSE IF "category" \notin columns
           THEN creative' = "KeyError" /\ UNCHANGED <<prompt, service>>
           ELSE LET best == df[IdxMaxRoas]
                IN  /\ GenerateContent(
                         [kind |-> "headline",
                          body |-> <<best.category,
                                     Format2f([num |-> best.roas, den |-> 1])>>])
                    /\ creative' = IF service' = "answered" THEN "ok" ELSE "ServiceError"
  /\ UNCHANGED <<df, columns, insights, outcome, analyzeCalls, savedJson, saveOutcome,
                 report, normArgs, normResult>>

\* CreativeGenerator.generate_seo_meta_description: no prompt when no row
\* passes the filter; no try, every error propagates
MetaBody ==
  /\ IF ~({"search_volume", "average_position"} \subseteq columns)
       THEN creative' = "KeyError" /\ UNCHANGED <<prompt, service>>
       ELSE IF df = <<>> \/ high_potential = {}
         THEN creative' = "ok" /\ UNCHANGED <<prompt, service>>
         ELSE IF "category" \notin columns
           THEN creative' = "KeyError" /\ UNCHANGED <<prompt, service>>
           ELSE \E i \in BestSeoOpps :
                  /\ GenerateContent(
                       [kind |-> "meta",
                        body |-> <<df[i].category, df[i].search_volume>>])
                  /\ creative' = IF service' = "answered" THEN "ok" ELSE "ServiceError"
  /\ UNCHANGED <<df, columns, insights, outcome, analyzeCalls, savedJson, saveOutcome,
                 report, normArgs, normResult>>

\* ------------------------------------------------ the objects' interface
Analyze == AnalyzeBody /\ UNCHANGED pc

SaveInsightsToJson == \E path \in SavePaths : SaveBody(path) /\ UNCHANGED pc

GenerateReport == \E canOpen \in BOOLEAN : ReportBody(canOpen) /\ UNCHANGED pc

GenerateAdHeadline == HeadlineBody /\ UNCHANGED pc

GenerateSeoMetaDescription == MetaBody /\ UNCHANGED pc

\* a direct call of _normalize_value on the arguments drawn at the start
NormalizeCall ==
  /\ normArgs # <<>>
  /\ normResult = NoResult
  /\ normResult' = [returned |-> TRUE,
                    value |-> _normalize_value(normArgs[1], normArgs[2], normArgs[3])]
  /\ UNCHANGED <<df, columns, insights, outcome, analyzeCalls, savedJson, saveOutcome,
                 prompt, service, report, creative, pc, normArgs>>

\* ------------------------------- run_full_d2c_pipeline, steps 3 and 4
\* insight_gen.analyze(): an exception leaves the function
PipelineAnalyze ==
  /\ pc = "start"
  /\ AnalyzeBody
  /\ pc' = IF outcome' = "KeyError" THEN "aborted" ELSE "analyzed"

\* line 182; the directory "output" exists since line 38
PipelineSave ==
  /\ pc = "analyzed"
  /\ SaveBody(PipelineJsonPath)
  /\ pc' = "saved"

PipelineReport ==
  /\ pc = "saved"
  /\ ReportBody(TRUE)
  /\ pc' = "reported"

\* creative_gen.generate_ad_headline(): an exception leaves the function
PipelineHeadline ==
  /\ pc = "reported"
  /\ HeadlineBody
  /\ pc' = IF creative' = "ok" THEN "headlined" ELSE "aborted"

\* creative_gen.generate_seo_meta_description()
PipelineMeta ==
  /\ pc = "headlined"
  /\ MetaBody
  /\ pc' = IF creative' = "ok" THEN "finished" ELSE "aborted"

\* ------------------------------------------------------- specifications
\* the state after InsightGenerator.__init__
Constructed ==
  /\ insights = <<>>
  /\ outcome = "none"
  /\ analyzeCalls = 0
  /\ saveOutcome = "none"
  /\ prompt = NoPrompt
  /\ service = "none"
  /\ creative = "none"
  /\ normResult = NoResult

\* What an earlier run of the pipeline can have left in the insights JSON file:
\* nothing, or the insights of its single analyze pass (here over a table of
\* one row of channel "B", ranked 5 or 6).
PreviousJson ==
  LET fun == [insight_id |-> "FUN-001", type |-> "Funnel",
              title |-> "Top Channel by ROAS",
              recommendation |-> <<"B", 100>>,
              confidence |-> [score |-> 100, justification |-> 1]]
      seo == [insight_id |-> "SEO-001", type |-> "SEO",
              title |-> "High-Volume, Poorly Ranked Category",
              recommendation |-> <<"Shoes", 1>>,
              confidence |-> [score |-> 100, justification |-> 1]]
  IN  {NoFile,
       [written |-> TRUE, insights |-> <<fun>>],
       [written |-> TRUE, insights |-> <<fun, seo>>]}

\* the files on disk when a generator is constructed
FilesOnDisk ==
  /\ savedJson \in PreviousJson
  /\ report \in {"none", "previous"}

\* the objects' methods, called in any order
Init ==
  /\ df \in SeqsUpTo(ApiRows, MaxRows)
  /\ columns \in Schemas
  /\ normArgs = <<>>
  /\ pc = "api"
  /\ Constructed
  /\ FilesOnDisk

Next ==
  \/ Analyze
  \/ SaveInsightsToJson
  \/ GenerateReport
  \/ GenerateAdHeadline
  \/ GenerateSeoMetaDescription

Spec == Init /\ [][Next]_vars

\* the rules and the normalization, each applied once to its inputs
EngineInit ==
  /\ \/ /\ df \in SeqsUpTo(ChannelRows, MaxRows) \cup SeqsUpTo(SeoRows, MaxRows)
        /\ normArgs = <<>>
     \/ /\ df = <<>>
        /\ normArgs \in NormDomain \X NormDomain \X NormDomain
  /\ columns = Columns
  /\ pc = "api"
  /\ Constructed
  /\ savedJson = NoFile
  /\ report = "none"

\* analyze applied to the freshly constructed generator
FirstAnalyze ==
  /\ analyzeCalls = 0
  /\ Analyze

EngineNext == FirstAnalyze \/ NormalizeCall

EngineSpec == EngineInit /\ [][EngineNext]_vars

\* the pipeline's calls, in the pipeline's order, from line 180 on
PipelineInit ==
  /\ df \in SeqsUpTo(ApiRows, MaxRows)
  /\ columns \in PipelineSchemas
  /\ normArgs = <<>>
  /\ pc = "start"
  /\ Constructed
  /\ FilesOnDisk

PipelineNext ==
  \/ PipelineAnalyze
  \/ PipelineSave
  \/ PipelineReport
  \/ PipelineHeadline
  \/ PipelineMeta

PipelineSpec == PipelineInit /\ [][PipelineNext]_vars

\* ================================================================ claims
\* The insights with a given id, by position.
FunAt == {k \in DOMAIN insights : insights[k].insight_id = "FUN-001"}
SeoAt == {k \in DOMAIN insights : insights[k].insight_id = "SEO-001"}

\* C1: after any number of analyze calls the insight sequence, and the report
\* serialized from it, holds the insights of one pass only: at most two
\* insights, each insight_id at most once, FUN-001 before SEO-001.
C1_ReportHoldsOnePass ==
  LET onePass(seq) ==
        /\ Len(seq) <= 2
        /\ \A i, j \in DOMAIN seq : seq[i].insight_id = seq[j].insight_id => i = j
        /\ \A i, j \in DOMAIN seq :
             (seq[i].insight_id = "FUN-001" /\ seq[j].insight_id = "SEO-001") => i < j
  IN  /\ onePass(insights)
      /\ savedJson.written => onePass(savedJson.insights)

\* C2: an analyze call that fails on an absent column leaves no insight of
\* that call in the generator's insight sequence.
C2_FailedAnalyzeLeavesNothing ==
  [][(analyzeCalls' = analyzeCalls + 1 /\ outcome' = "KeyError")
       => insights' = insights]_vars

\* C3: a further analyze call on the same table leaves the insight sequence
\* equal to the one available after the call before it.
C3_SecondCallSameInsights ==
  [][(analyzeCalls >= 1 /\ analyzeCalls' = analyzeCalls + 1
        /\ outcome = "ok" /\ outcome' = "ok")
       => insights' = insights]_vars

\* C4 as stated: FUN-001 names a channel of maximal avg_roas, and among tied
\* channels the one whose first row comes first in the table.
C4_TieGoesToFirstEncountered ==
  LET sum(c) == SeqSum(Col(GroupRows(c), "roas"))
      cnt(c) == Len(GroupRows(c))
      isMax(c) == /\ c \in GroupKeys
                  /\ \A d \in GroupKeys : sum(d) * cnt(c) <= sum(c) * cnt(d)
      first(c) == SetMin({i \in DOMAIN df : df[i].channel = c})
  IN  \A k \in FunAt :
        LET named == insights[k].recommendation[1]
        IN  /\ isMax(named)
            /\ \A d \in GroupKeys : isMax(d) => first(named) <= first(d)

\* C4 as amended: on a non-empty table every analyze call emits FUN-001, and
\* the channel it names has the maximal avg_roas over all channels (on a tie
\* it is one of the tied channels).
C4_TopChannelHasMaxAvgRoas ==
  LET sum(c) == SeqSum(Col(GroupRows(c), "roas"))
      cnt(c) == Len(GroupRows(c))
      isMax(c) == /\ c \in GroupKeys
                  /\ \A d \in GroupKeys : sum(d) * cnt(c) <= sum(c) * cnt(d)
  IN  /\ (analyzeCalls > 0 /\ df # <<>>) => Cardinality(FunAt) = analyzeCalls
      /\ \A k \in FunAt : isMax(insights[k].recommendation[1])

\* C4 witness: two channels tie for the maximal avg_roas and FUN-001 names one
\* that is not the first of them in the table.
C4_Witness ==
  LET sum(c) == SeqSum(Col(GroupRows(c), "roas"))
      cnt(c) == Len(GroupRows(c))
      first(c) == SetMin({i \in DOMAIN df : df[i].channel = c})
  IN  \E k \in FunAt : \E d \in GroupKeys :
        LET named == insights[k].recommendation[1]
        IN  /\ d # named
            /\ sum(d) * cnt(named) = sum(named) * cnt(d)
            /\ first(d) < first(named)
            /\ Cardinality(GroupKeys) = 3

\* C5 as stated: the score of FUN-001 is exactly
\* normalize(top.total_spend, min total_spend, max total_spend).
C5_FunScoreExactlyNormalized ==
  LET total(c) == SeqSum(Col(GroupRows(c), "spend"))
      totals == {total(c) : c \in GroupKeys}
  IN  \A k \in FunAt :
        LET q == _normalize_value(total(insights[k].recommendation[1]),
                                  SetMin(totals), SetMax(totals))
        IN  insights[k].confidence.score * q.den = ScoreScale * q.num

\* C5 as amended: the score of FUN-001 is that normalized value rounded to two
\* decimals.
C5_FunScoreRoundedNormalized ==
  LET total(c) == SeqSum(Col(GroupRows(c), "spend"))
      totals == {total(c) : c \in GroupKeys}
  IN  \A k \in FunAt :
        insights[k].confidence.score =
          Round2(_normalize_value(total(insights[k].recommendation[1]),
                                  SetMin(totals), SetMax(totals)))

\* C5 witness: FUN-001 names a channel whose total_spend, 24, lies 23/40 of the
\* way between the least, 1, and the greatest, 41; the score is 0.57.
C5_Witness ==
  \E k \in FunAt :
    /\ insights[k].confidence.score = 57
    /\ insights[k].confidence.justification = 24
    /\ Cardinality(GroupKeys) = 3

\* C6: SEO-001 is emitted exactly when some row has search_volume >= the
\* median and average_position > 5; the row it names is such a row of the
\* highest search_volume among them, so never a row at position 5.
C6_SeoRuleSelection ==
  LET qual == {i \in DOMAIN df :
                 /\ 2 * df[i].search_volume >= Median2
                 /\ df[i].average_position > PositionThreshold}
  IN  /\ analyzeCalls > 0 => (SeoAt # {} <=> qual # {})
      /\ \A k \in SeoAt : \E i \in qual :
           /\ insights[k].recommendation = <<df[i].category, df[i].search_volume>>
           /\ \A j \in qual : df[j].search_volume <= df[i].search_volume
           /\ df[i].average_position # PositionThreshold

\* C6 witness: the row of the greatest search_volume sits at position 5, and
\* SEO-001 names a row whose search_volume equals the median.
C6_Witness ==
  \E k \in SeoAt : \E i \in DOMAIN df :
    /\ df[i].average_position = PositionThreshold
    /\ \A j \in DOMAIN df : df[j].search_volume <= df[i].search_volume
    /\ df[i].search_volume > insights[k].recommendation[2]
    /\ 2 * insights[k].recommendation[2] = Median2

\* C7: for min <= value <= max, normalize returns a score in [0, 1], 0 at
\* value = min < max, 1 at value = max; 1 for any value when min = max; and
\* every insight analyze emits carries a score in [0, 1].
C7_ScoreInUnitInterval ==
  /\ normResult.returned =>
       LET value == normArgs[1]
           min_val == normArgs[2]
           max_val == normArgs[3]
           q == normResult.value
       IN  /\ (min_val < max_val /\ min_val <= value /\ value <= max_val) =>
                /\ q.den > 0 /\ 0 <= q.num /\ q.num <= q.den
                /\ value = min_val => q.num = 0
                /\ value = max_val => q.num = q.den
           /\ min_val = max_val => (q.den # 0 /\ q.num = q.den)
  /\ \A k \in DOMAIN insights :
       /\ 0 <= insights[k].confidence.score
       /\ insights[k].confidence.score <= ScoreScale

\* C7 witness: normalize has returned for a value strictly inside a proper
\* range.
C7_Witness ==
  /\ normResult.returned
  /\ normArgs[2] < normArgs[1]
  /\ normArgs[1] < normArgs[3]

\* C8 as stated: the score of SEO-001 is exactly normalize(search_volume of
\* the selected row, min and max search_volume over all rows).
C8_SeoScoreExactlyNormalized ==
  LET all == {df[i].search_volume : i \in DOMAIN df}
  IN  \A k \in SeoAt :
        LET q == _normalize_value(insights[k].recommendation[2], SetMin(all), SetMax(all))
        IN  insights[k].confidence.score * q.den = ScoreScale * q.num

\* C8 as amended: the score of SEO-001 is that value, normalized over the
\* range of all rows of the table, rounded to two decimals.
C8_SeoScoreOverWholeTable ==
  LET all == {df[i].search_volume : i \in DOMAIN df}
  IN  \A k \in SeoAt :
        insights[k].confidence.score =
          Round2(_normalize_value(insights[k].recommendation[2], SetMin(all), SetMax(all)))

\* C8 witness: the selected row's volume is neither the least nor the greatest
\* of the table, and the least volume of the table failed the filter.
C8_Witness ==
  \E k \in SeoAt :
    /\ insights[k].confidence.score = 33
    /\ \A i \in high_potential : df[i].search_volume = insights[k].recommendation[2]
    /\ \E i \in DOMAIN df : df[i].search_volume < insights[k].recommendation[2]

\* C9: normalize raises whenever max < min; it returns no score for an
\* inverted range.
C9_InvertedRangeRaises ==
  (normArgs # <<>> /\ normArgs[3] < normArgs[2]) => ~normResult.returned

\* C10: the report prompt is sent only once analyze has completed, it holds
\* every insight once, in emission order, and the report step, whether the
\* text service answers or fails, leaves the insight sequence and the saved
\* JSON as they were, the JSON holding the insights analyze produced.
C10_HandoffAfterAnalyze ==
  /\ [](prompt.kind = "report" =>
          /\ analyzeCalls = 1 /\ outcome = "ok"
          /\ Len(prompt.body) = Len(insights)
          /\ \A i \in DOMAIN insights :
               /\ prompt.body[i][1] = <<"insight_id", insights[i].insight_id>>
               /\ prompt.body[i][4] = <<"recommendation", insights[i].recommendation>>
               /\ prompt.body[i][5][2][1] = <<"score", insights[i].confidence.score>>)
  /\ [][(pc = "saved" /\ pc' = "reported") =>
          /\ insights' = insights
          /\ savedJson' = savedJson
          /\ prompt'.kind = "report" =>
               savedJson' = [written |-> TRUE, insights |-> insights]]_vars

\* C10 witness: the text service failed on a report prompt of two insights,
\* and a report file of an earlier run is still on disk.
C10_Witness ==
  /\ pc = "reported"
  /\ prompt.kind = "report"
  /\ service = "failed"
  /\ report = "previous"
  /\ Len(insights) = 2
  /\ savedJson.written

====
